---- MODULE Spec2Model ----
(***************************************************************************)
(* Change detection and deduplication in the Star Wars news monitors.      *)
(*                                                                         *)
(* The repository holds several near-duplicate monitors.  This module      *)
(* models the category monitors, each as its own specification over the    *)
(* same state:                                                             *)
(*   SpecIndex      src/index.js lines 1-237 (cache file + globalCache)    *)
(*   Spec000        src/unnamed/part_000 lines 155-355 (same store, no     *)
(*                  per-category catch or save, no in-page dedup)          *)
(*   Spec001        src/unnamed/part_001 (in-memory store)                 *)
(*   SpecRetention  the commit rule of src/index.js run cycle after cycle  *)
(*                  on one category, with the time of first detection      *)
(* and, each in its own section, the other monitors and functions:         *)
(* Spec005, Spec002, Spec004, SpecWebhook, SpecFeed, SpecSequential,       *)
(* SpecRetention001, SpecTitles, SpecLive, SpecDate, SpecRetries.          *)
(*                                                                         *)
(* An article is modelled by its url: the url is the only field the        *)
(* pipeline compares (title, date and categories only reach the message    *)
(* text and the stored copy).                                              *)
(***************************************************************************)
EXTENDS Integers, Sequences, FiniteSets, TLC

\* ------------------------------------------------------------------ bounds
\* Number of checkForNewArticles invocations that may be in progress at once.
MaxCycles == 2
\* Number of article elements on a scraped page.
MaxBatch == 2
\* Stand-in for the 100 of slice(0, 100) (src/index.js:200).
CacheLimit == 2
\* Stand-in for the 50 of slice(0, 50) (src/unnamed/part_001:199).
CacheLimit001 == 2
\* Number of process restarts followed.
MaxRestarts == 1
\* Number of checkForNewArticles invocations followed.
MaxStarts == 2
\* SpecScrape: number of scrapeArticles calls followed.
MaxScrapeCalls == 2
MaxChecks == 2
MaxPage == 2
MaxPosts == 2
MaxDays == 3
ScrapeLimit == 2
TitleLimit == 2
\* const MAX_RETRIES = 3 (src/index.js:20, src/unnamed/part_001:25)
MAX_RETRIES == 3
\* SpecRetention: stand-in for the 100 of slice(0, 100), number of article
\* elements on a page, and number of cycles followed.
RetentionCap == 3
RetentionBatch == 3
RetentionCycles == 3
\* SpecLive: number of timer ticks that find an invocation in progress.
MaxOverlaps == 1
\* SpecRetries: the largest value of the argument `retries`.
MaxRetryArg == 4
\* SpecTitles: number of postNews invocations followed.
TitleCycles == 3

\* The first two entries of CATEGORIES (src/index.js:15-18).
CATEGORIES == <<"star-wars", "movies">>
NumCategories == Len(CATEGORIES)

\* The articles each category's page may show: the first category's page
\* draws on two urls, the second on one it shares with the first.
PageUrls == <<{"u1", "u2"}, {"u1"}>>
Urls == UNION {PageUrls[c] : c \in DOMAIN PageUrls}
\* The articles the one category of SpecRetention may show.
RetentionUrls == {"u1", "u2", "u3", "u4"}

Cycles == 1..MaxCycles
CatIdx == 1..NumCategories
\* Cache objects: one per running cycle, one for globalCache, one spare.
Objs == 1..(MaxCycles + 2)

\* ----------------------------------------------------------------- helpers
Min(a, b) == IF a < b THEN a ELSE b

\* Array.prototype.slice(0, n)
Slice0(s, n) == SubSeq(s, 1, Min(n, Len(s)))

Range(s) == {s[i] : i \in DOMAIN s}

\* new Set(list.map(article => article.url))
UrlSet(list) == Range(list)

\* Sequences over S of length at most n.
SeqUpTo(S, n) == UNION {[1..m -> S] : m \in 0..n}

\* What a category's page can hold: up to MaxBatch article elements,
\* repeats allowed.
RawPages(c) == SeqUpTo(PageUrls[c], MaxBatch)

\* { categories: {} }: a category without a key reads as [] (|| []).
EmptyCache == [c \in CatIdx |-> <<>>]

\* ----------------------------------------------------- pure code fragments
FilterKeepsAll(list, urls) == list

RECURSIVE FilterBackwards(_, _)
FilterBackwards(list, urls) ==
  IF list = <<>> THEN <<>>
  ELSE IF Head(list) \in urls THEN FilterBackwards(Tail(list), urls)
       ELSE FilterBackwards(Tail(list), urls) \o <<Head(list)>>

RECURSIVE FilterNotIn(_, _)
\* newArticles.filter(article => !cachedUrls.has(article.url))
FilterNotIn(list, urls) ==
  IF list = <<>> THEN <<>>
  ELSE IF Head(list) \in urls THEN FilterNotIn(Tail(list), urls)
       ELSE <<Head(list)>> \o FilterNotIn(Tail(list), urls)

RECURSIVE DedupFrom(_, _)
DedupFrom(list, seenUrls) ==
  IF list = <<>> THEN <<>>
  ELSE IF Head(list) \in seenUrls THEN DedupFrom(Tail(list), seenUrls)
       ELSE <<Head(list)>> \o DedupFrom(Tail(list), seenUrls \cup {Head(list)})

\* page.evaluate of src/index.js: an element whose url was already pushed
\* (seenUrls) is skipped.
ExtractIndex(raw) == DedupFrom(raw, {})

HasUpdatesNever(updates) == FALSE

HasUpdatesAlways(updates) == TRUE

\* if (updates.length > 0)
HasUpdates(updates) == Len(updates) > 0

CommitKeepAll(batch, old, cap) == batch \o old

\* [...newArticles, ...old].slice(0, cap)
CommitAt(batch, old, cap) == Slice0(batch \o old, cap)

\* cache.categories[category] = [...newArticles, ...old].slice(0, 100)
CommitIndex(batch, old) == CommitAt(batch, old, CacheLimit)

\* JSON.stringify(cache, null, 2): the text holds one entry per key of
\* cache.categories.
JSONstringify(c) == {<<CATEGORIES[i], c[i]>> : i \in {j \in CatIdx : c[j] # <<>>}}

JSONparseEmpty(text) == EmptyCache

\* JSON.parse(data), read through cache.categories[category] || [].
JSONparse(text) ==
  [i \in CatIdx |->
     IF \E e \in text : e[1] = CATEGORIES[i]
     THEN (CHOOSE e \in text : e[1] = CATEGORIES[i])[2]
     ELSE <<>>]

\* CACHE_FILE: absent or unparsable (readFile or JSON.parse throws), or
\* holding a JSON text.
NoFile == [readable |-> FALSE, text |-> {}]
FileOf(text) == [readable |-> TRUE, text |-> text]

\* fs.writeFile: the text given replaces the file, or the write fails and
\* leaves the file as it was, or leaves it unparsable.
WriteOutcomes == {"ok", "fail", "torn"}
FileAfterWrite(f, text, outcome) ==
  CASE outcome = "ok" -> FileOf(text)
    [] outcome = "fail" -> f
    [] OTHER -> NoFile

\* ------------------------------------------------------------------- state
VARIABLES
  file,         \* CACHE_FILE: NoFile or FileOf(text)
  heap,         \* cache objects: Objs -> [CatIdx -> list of urls]
  globalCache,  \* the object globalCache (inMemoryCache) refers to
  pc,           \* per cycle: what the invocation is waiting for
  cache,        \* per cycle: the object its local `cache` refers to (0: none)
  cat,          \* per cycle: index of the category being processed
  cachedUrls,   \* per cycle: the Set built at the start of the category
  newArticles,  \* per cycle: what scrapeArticles returned
  sent,         \* per cycle: messages sent for the current updates
  wbuf,         \* per cycle: the text handed to fs.writeFile
  boots,        \* history: number of restarts so far
  starts,       \* history: number of checkForNewArticles invocations so far
  rStore,       \* SpecRetention: cache.categories[category]
  rStamp,       \* SpecRetention: url -> cycle of its first detection (0: none)
  rHist,        \* SpecRetention: <<batch, updates>> of the cycles run so far
  sPc,          \* SpecScrape: where the scrapeArticles call is
  sVariant,     \* SpecScrape: whose scrapeArticles it is
  sCat,         \* SpecScrape: the category scraped
  sAttempt,     \* SpecScrape: the local `attempt`
  sPauses,      \* SpecScrape: pauses taken in this call
  sResult,      \* SpecScrape: what the call returned
  sCalls,       \* SpecScrape: history, calls made so far
  kPc,          \* Spec002: per invocation, what checkUpdates is waiting for
  lastNews,     \* Spec002: the Set lastNews
  kLog,         \* Spec002: history, articles handed to sendDiscordNotification
  wPc,            \* SpecWebhook: per invocation, what postNews is waiting for
  wArticles,      \* SpecWebhook: per invocation, the local `articles`
  wNewArticles,   \* SpecWebhook: per invocation, the local `newArticles`
  wIndex,         \* SpecWebhook: per invocation, position of the for loop
  previousTitles, \* SpecWebhook: the Set previousTitles, in insertion order
  wLog,           \* SpecWebhook: history, articles whose message was sent
  today,          \* Spec004: the day the clock shows
  lastResetDate,  \* Spec004: the instant lastResetDate holds
  lastNewsFile,   \* Spec004: LAST_NEWS_FILE, NoNewsFile or what was written
  bootPc,         \* Spec004: "load" until loadLastNews has run
  kBuf,           \* Spec004: per invocation, the data handed to fs.writeFile
  token,          \* whether process.env.DISCORD_TOKEN is set
  stable,         \* SpecLive: the page and the channel have become reliable
  fFile,          \* SpecFeed: CACHE_FILE of the single-feed monitor
  fPc,            \* SpecFeed: per invocation, what it is waiting for
  fArticles,      \* SpecFeed: per invocation, cache.articles
  fCachedUrls,    \* SpecFeed: per invocation, the Set cachedUrls
  fBuf,           \* SpecFeed: per invocation, the text handed to fs.writeFile
  qFile,          \* SpecSequential: CACHE_FILE, the category's list in it
  qMem,           \* SpecSequential: the category's list in globalCache
  qCount,         \* SpecSequential: history, url -> messages sent for it (2: more than one)
  qGone,          \* SpecSequential: history, urls missing from a batch after their first message
  qLoadFailed,    \* SpecSequential: history, some loadCache could not read the file
  qLast,          \* SpecSequential: history, the last batch and whether its pass ended without error
  dText,          \* SpecDate: the articleDateStr isArticleAfterDate is called with
  dCompare,       \* SpecDate: its compareDate, an instant
  dResult,        \* SpecDate: what the call returned ("none" before the call)
  rtRetries,      \* SpecRetries: the argument `retries` of withRetries
  rtPc,           \* SpecRetries: what the call of withRetries is waiting for
  rtI,            \* SpecRetries: the loop variable i
  rtLog,          \* SpecRetries: history, the calls of fn with their outcomes and the delays
  rtResult        \* SpecRetries: how withRetries settled

monitorVars == <<file, heap, globalCache, pc, cache, cat, cachedUrls,
                 newArticles, sent, wbuf, boots, starts>>
retentionVars == <<rStore, rStamp, rHist>>
scrapeVars == <<sPc, sVariant, sCat, sAttempt, sPauses, sResult, sCalls>>
keyVars == <<kPc, lastNews, kLog>>
webhookVars == <<wPc, wArticles, wNewArticles, wIndex, previousTitles, wLog>>
dateVars == <<today, lastResetDate, lastNewsFile, bootPc, kBuf>>
envVars == <<token, stable>>
feedVars == <<fFile, fPc, fArticles, fCachedUrls, fBuf>>
seqVars == <<qFile, qMem, qCount, qGone, qLoadFailed, qLast>>
callVars == <<dText, dCompare, dResult, rtRetries, rtPc, rtI, rtLog, rtResult>>
restOfWebhook == <<keyVars, dateVars, envVars, feedVars, seqVars, callVars>>
restOfKey == <<webhookVars, dateVars, envVars, feedVars, seqVars, callVars>>
restOfDate == <<webhookVars, envVars, feedVars, seqVars, callVars>>
restOfFeed == <<keyVars, webhookVars, dateVars, envVars, seqVars, callVars>>
restOfSeq == <<keyVars, webhookVars, dateVars, envVars, feedVars, callVars>>
restVars == <<keyVars, webhookVars, dateVars, envVars, feedVars, seqVars, callVars>>
restOfCalls == <<keyVars, webhookVars, dateVars, envVars, feedVars, seqVars>>
otherVars == <<retentionVars, scrapeVars, restVars>>
vars == <<monitorVars, otherVars>>

\* const updates = newArticles.filter(...)
Updates(k) == FilterNotIn(newArticles[k], cachedUrls[k])

Running(k) == pc[k] # "idle"

\* The objects still referred to, given the references g (globalCache) and
\* c (the cycles' caches).
LiveObjs(g, c) == ({g} \cup {c[k] : k \in Cycles}) \ {0}

\* Unreferenced objects are garbage: they are reset, so that equal program
\* states are equal model states.
Collect(h, g, c) == [o \in Objs |-> IF o \in LiveObjs(g, c) THEN h[o] ELSE EmptyCache]

FreshObj == CHOOSE o \in Objs : o \notin LiveObjs(globalCache, cache) /\
              \A p \in Objs : p \notin LiveObjs(globalCache, cache) => o <= p

\* The slot a new invocation of checkForNewArticles takes.
FreeSlot == CHOOSE k \in Cycles : pc[k] = "idle" /\ \A j \in Cycles : pc[j] = "idle" => k <= j

\* A process that has just started: globalCache = { categories: {} }, no
\* invocation in progress.
FreshProcess ==
  /\ heap = [o \in Objs |-> EmptyCache]
  /\ globalCache = 1
  /\ pc = [k \in Cycles |-> "idle"]
  /\ cache = [k \in Cycles |-> 0]
  /\ cat = [k \in Cycles |-> 0]
  /\ cachedUrls = [k \in Cycles |-> {}]
  /\ newArticles = [k \in Cycles |-> <<>>]
  /\ sent = [k \in Cycles |-> 0]
  /\ wbuf = [k \in Cycles |-> {}]

RetentionIdle ==
  /\ rStore = <<>>
  /\ rStamp = [u \in RetentionUrls |-> 0]
  /\ rHist = <<>>

\* What a call of scrapeArticles evaluates to.
Undefined == [kind |-> "undefined", items |-> <<>>]
Array(items) == [kind |-> "array", items |-> items]

ScrapeIdle ==
  /\ sPc = "idle"
  /\ sVariant = "index"
  /\ sCat = 0
  /\ sAttempt = 0
  /\ sPauses = 0
  /\ sResult = Undefined
  /\ sCalls = 0

\* let lastNews = new Set(); no checkUpdates has been called.
KeyIdle ==
  /\ kPc = [k \in 1..MaxChecks |-> "idle"]
  /\ lastNews = {}
  /\ kLog = {}

\* let previousTitles = new Set(); postNews has not been called.
WebhookIdle ==
  /\ wPc = [k \in 1..MaxPosts |-> "idle"]
  /\ wArticles = [k \in 1..MaxPosts |-> <<>>]
  /\ wNewArticles = [k \in 1..MaxPosts |-> <<>>]
  /\ wIndex = [k \in 1..MaxPosts |-> 0]
  /\ previousTitles = <<>>
  /\ wLog = {}

\* Instants: midnight (UTC) of a day, and some moment later that day.
Midnight(day) == 2 * day
Now(day) == 2 * day + 1

\* new Date('2024-05-29T00:00:00Z'), a day before the first day modelled.
INITIAL_START_DATE == Midnight(0)

NoNewsFile == [readable |-> FALSE, lastNews |-> {}, lastResetDate |-> 0]

\* part_004 before its start-up function (lines 293-294, 483) has run.
DateIdle ==
  /\ today = 1
  /\ lastResetDate = INITIAL_START_DATE
  /\ lastNewsFile = NoNewsFile
  /\ bootPc = "load"
  /\ kBuf = [k \in 1..MaxChecks |-> NoNewsFile]

\* What CACHE_FILE of the single-feed monitor can be: absent, an object
\* with the list `articles`, or an object of another schema, without it.
NoFeedFile == [kind |-> "none", articles |-> <<>>]
FeedFileOf(list) == [kind |-> "articles", articles |-> list]
OtherSchemaFile == [kind |-> "other", articles |-> <<>>]

\* The single-feed monitor before its first checkForNewArticles.
FeedIdle ==
  /\ fFile = NoFeedFile
  /\ fPc = [k \in Cycles |-> "idle"]
  /\ fArticles = [k \in Cycles |-> <<>>]
  /\ fCachedUrls = [k \in Cycles |-> {}]
  /\ fBuf = [k \in Cycles |-> <<>>]

\* One category of src/index.js followed cycle by cycle: no file yet,
\* globalCache as line 24 creates it.
NoListFile == [readable |-> FALSE, list |-> <<>>]
ListFileOf(list) == [readable |-> TRUE, list |-> list]

SequentialIdle ==
  /\ qFile = NoListFile
  /\ qMem = <<>>
  /\ qCount = [u \in Urls |-> 0]
  /\ qGone = {}
  /\ qLoadFailed = FALSE
  /\ qLast = [batch |-> <<>>, clean |-> TRUE]

\* No call of isArticleAfterDate or withRetries has been made.
DateCallIdle ==
  /\ dText = "2025-06-01"
  /\ dCompare = 0
  /\ dResult = "none"

RetriesCallIdle ==
  /\ rtRetries = 3
  /\ rtPc = "idle"
  /\ rtI = 0
  /\ rtLog = <<>>
  /\ rtResult = <<"none">>

\* The environment the monitors are run in has the credential set.
Init ==
  /\ token = TRUE
  /\ stable = FALSE
  /\ DateCallIdle
  /\ RetriesCallIdle
  /\ SequentialIdle
  /\ FeedIdle
  /\ DateIdle
  /\ WebhookIdle
  /\ KeyIdle
  /\ ScrapeIdle
  /\ file = NoFile
  /\ FreshProcess
  /\ boots = 0
  /\ starts = 0
  /\ RetentionIdle

EnterCategoryAllLists(k, c, h, o) ==
  /\ cat' = [cat EXCEPT ![k] = c]
  /\ cachedUrls' = [cachedUrls EXCEPT ![k] = UNION {UrlSet(h[o][d]) : d \in CatIdx}]
  /\ newArticles' = [newArticles EXCEPT ![k] = <<>>]
  /\ sent' = [sent EXCEPT ![k] = 0]
  /\ pc' = [pc EXCEPT ![k] = "scrapeArticles"]

\* ------------------------------------------------- src/index.js, lines 1-237
\* The start of a category's sub-cycle (lines 187-190): cachedUrls is built
\* from the cycle's cache object o of heap h, then scrapeArticles is awaited.
EnterCategory(k, c, h, o) ==
  /\ cat' = [cat EXCEPT ![k] = c]
  /\ cachedUrls' = [cachedUrls EXCEPT ![k] = UrlSet(h[o][c])]
  /\ newArticles' = [newArticles EXCEPT ![k] = <<>>]
  /\ sent' = [sent EXCEPT ![k] = 0]
  /\ pc' = [pc EXCEPT ![k] = "scrapeArticles"]

\* Lines 192-198, once scrapeArticles has resolved with batch: with no
\* update the iteration goes to its pause; otherwise sendDiscordNotification
\* is called, which returns at once for an empty list (line 161).
AfterScrape(k, batch) ==
  LET updates == FilterNotIn(batch, cachedUrls[k]) IN
  /\ newArticles' = [newArticles EXCEPT ![k] = batch]
  /\ pc' = [pc EXCEPT ![k] =
              IF ~HasUpdates(updates) THEN "pause"
              ELSE IF updates = <<>> THEN "commit" ELSE "send"]

\* The invocation returns: its locals are gone.
Return(k) ==
  LET c == [cache EXCEPT ![k] = 0] IN
  /\ cache' = c
  /\ heap' = Collect(heap, globalCache, c)
  /\ pc' = [pc EXCEPT ![k] = "idle"]
  /\ cat' = [cat EXCEPT ![k] = 0]
  /\ cachedUrls' = [cachedUrls EXCEPT ![k] = {}]
  /\ newArticles' = [newArticles EXCEPT ![k] = <<>>]
  /\ sent' = [sent EXCEPT ![k] = 0]
  /\ wbuf' = [wbuf EXCEPT ![k] = {}]

\* The timer (line 228) or the 'ready' handler (line 227) calls
\* checkForNewArticles: loadCache (lines 32-43), then the first category is
\* entered.  When the file parses, the parsed object becomes the cycle's
\* cache and globalCache; otherwise the cycle works on the globalCache
\* object itself.
IdxStart ==
  /\ \E j \in Cycles : pc[j] = "idle"
  /\ starts < MaxStarts
  /\ starts' = starts + 1
  /\ LET k == FreeSlot
         o == IF file.readable THEN FreshObj ELSE globalCache
         h == IF file.readable THEN [heap EXCEPT ![o] = JSONparse(file.text)] ELSE heap
         c == [cache EXCEPT ![k] = o]
     IN /\ globalCache' = o
        /\ cache' = c
        /\ heap' = Collect(h, o, c)
        /\ EnterCategory(k, 1, h, o)
  /\ UNCHANGED <<file, wbuf, boots, otherVars>>

\* scrapeArticles resolves with the articles extracted from the page (an
\* empty page, or [] once MAX_RETRIES attempts have failed, gives the empty
\* batch).
IdxScrapeReturns(k) ==
  /\ pc[k] = "scrapeArticles"
  /\ \E raw \in RawPages(cat[k]) : AfterScrape(k, ExtractIndex(raw))
  /\ UNCHANGED <<file, heap, globalCache, cache, cat, cachedUrls, sent, wbuf,
                 boots, starts, otherVars>>

\* channel.send resolves for the next update (lines 165-174).
SendOk(k) ==
  /\ pc[k] = "send"
  /\ sent' = [sent EXCEPT ![k] = sent[k] + 1]
  /\ pc' = [pc EXCEPT ![k] = IF sent[k] + 1 = Len(Updates(k)) THEN "commit" ELSE "send"]
  /\ UNCHANGED <<file, heap, globalCache, cache, cat, cachedUrls, newArticles,
                 wbuf, boots, starts, otherVars>>

\* channels.fetch or channel.send rejects: sendDiscordNotification rethrows
\* (line 177) and the category's catch (line 205) logs it; the iteration
\* goes to its pause.
IdxSendFails(k) ==
  /\ pc[k] = "send"
  /\ sent' = [sent EXCEPT ![k] = 0]
  /\ pc' = [pc EXCEPT ![k] = "pause"]
  /\ UNCHANGED <<file, heap, globalCache, cache, cat, cachedUrls, newArticles,
                 wbuf, boots, starts, otherVars>>

\* Lines 200-201 up to the await inside saveCache: the category's list is
\* replaced, globalCache is set, and the cache is serialized for writeFile.
IdxCommit(k) ==
  /\ pc[k] = "commit"
  /\ LET o == cache[k]
         h == [heap EXCEPT ![o][cat[k]] = CommitIndex(newArticles[k], heap[o][cat[k]])]
     IN /\ heap' = Collect(h, o, cache)
        /\ wbuf' = [wbuf EXCEPT ![k] = JSONstringify(h[o])]
        /\ globalCache' = o
  /\ sent' = [sent EXCEPT ![k] = 0]
  /\ pc' = [pc EXCEPT ![k] = "writeFile"]
  /\ UNCHANGED <<file, cache, cat, cachedUrls, newArticles, boots, starts,
                 otherVars>>

\* fs.writeFile of saveCache settles (lines 47-53); a failure is logged.
IdxWriteSettles(k) ==
  /\ pc[k] = "writeFile"
  /\ \E outcome \in WriteOutcomes : file' = FileAfterWrite(file, wbuf[k], outcome)
  /\ wbuf' = [wbuf EXCEPT ![k] = {}]
  /\ pc' = [pc EXCEPT ![k] = "pause"]
  /\ UNCHANGED <<heap, globalCache, cache, cat, cachedUrls, newArticles, sent,
                 boots, starts, otherVars>>

\* The 10 s pause ends (line 208) and the next category is entered.
NextCategory(k) ==
  /\ pc[k] = "pause"
  /\ cat[k] < NumCategories
  /\ EnterCategory(k, cat[k] + 1, heap, cache[k])
  /\ UNCHANGED <<file, heap, globalCache, cache, wbuf, boots, starts,
                 otherVars>>

\* After the last category: lastResetDate is set and saveCache is called
\* (lines 211-212).
FinalSave(k) ==
  /\ pc[k] = "pause"
  /\ cat[k] = NumCategories
  /\ globalCache' = cache[k]
  /\ heap' = Collect(heap, cache[k], cache)
  /\ wbuf' = [wbuf EXCEPT ![k] = JSONstringify(heap[cache[k]])]
  /\ pc' = [pc EXCEPT ![k] = "finalWrite"]
  /\ UNCHANGED <<file, cache, cat, cachedUrls, newArticles, sent, boots, starts,
                 otherVars>>

\* The final writeFile settles and checkForNewArticles returns.
FinalWriteSettles(k) ==
  /\ pc[k] = "finalWrite"
  /\ \E outcome \in WriteOutcomes : file' = FileAfterWrite(file, wbuf[k], outcome)
  /\ Return(k)
  /\ UNCHANGED <<globalCache, boots, starts, otherVars>>

\* GET /api/articles (lines 216-219): loadCache, which replaces globalCache
\* by what it parsed.
ApiArticles ==
  /\ file.readable
  /\ LET o == FreshObj IN
       /\ globalCache' = o
       /\ heap' = Collect([heap EXCEPT ![o] = JSONparse(file.text)], o, cache)
  /\ UNCHANGED <<file, pc, cache, cat, cachedUrls, newArticles, sent, wbuf,
                 boots, starts, otherVars>>

\* The process stops and is started again: memory is lost, the file is what
\* the crash left.
\* The texts handed to fs.writeFile and not settled yet.
PendingWrites == {wbuf[k] : k \in {j \in Cycles : pc[j] \in {"writeFile", "finalWrite"}}}

\* What CACHE_FILE can be after the process stops now: fs.writeFile
\* rewrites the file in place, so a write in progress may not have started,
\* may be complete, or may have left a truncated text.
FilesAfterCrash ==
  {file} \cup (IF PendingWrites = {} THEN {}
               ELSE {NoFile} \cup {FileOf(t) : t \in PendingWrites})

Restart ==
  /\ boots < MaxRestarts
  /\ boots' = boots + 1
  /\ file' \in FilesAfterCrash
  /\ heap' = [o \in Objs |-> EmptyCache]
  /\ globalCache' = 1
  /\ pc' = [k \in Cycles |-> "idle"]
  /\ cache' = [k \in Cycles |-> 0]
  /\ cat' = [k \in Cycles |-> 0]
  /\ cachedUrls' = [k \in Cycles |-> {}]
  /\ newArticles' = [k \in Cycles |-> <<>>]
  /\ sent' = [k \in Cycles |-> 0]
  /\ wbuf' = [k \in Cycles |-> {}]
  /\ UNCHANGED <<starts, otherVars>>

NextIndex ==
  \/ IdxStart
  \/ \E k \in Cycles : IdxScrapeReturns(k)
  \/ \E k \in Cycles : SendOk(k)
  \/ \E k \in Cycles : IdxSendFails(k)
  \/ \E k \in Cycles : IdxCommit(k)
  \/ \E k \in Cycles : IdxWriteSettles(k)
  \/ \E k \in Cycles : NextCategory(k)
  \/ \E k \in Cycles : FinalSave(k)
  \/ \E k \in Cycles : FinalWriteSettles(k)
  \/ ApiArticles
  \/ Restart

SpecIndex == Init /\ [][NextIndex]_vars

\* ---------------------------------------------- properties of src/index.js
\* The urls CACHE_FILE holds for category c, read off the text itself.
StoredIn(f, c) == UNION {UrlSet(e[2]) : e \in {x \in f.text : x[1] = CATEGORIES[c]}}
StoredInFile(c) == StoredIn(file, c)

\* The step in which channel.send resolves for the next update of cycle k.
Notifies(k) == pc[k] = "send" /\ sent'[k] = sent[k] + 1

\* The step in which a rejection takes cycle k out of its batch.
AbandonsBatch(k) == pc[k] = "send" /\ pc'[k] = "pause"

\* C1: an item that has been committed to a category's stored list, here
\* one that has reached the list CACHE_FILE holds for the category, is never
\* notified again for that category.
StoredNeverNotifiedAgain ==
  [][\A k \in Cycles :
       Notifies(k) => Updates(k)[sent[k] + 1] \notin StoredInFile(cat[k])]_vars

\* C3: at most one checkForNewArticles invocation is in progress at any
\* time.
AtMostOneCycleRunning == Cardinality({k \in Cycles : Running(k)}) <= 1

\* C4: a delivery failure for one item of a batch does not block the later
\* items (it only ends the batch when the failing item was the last one) and
\* does not keep the items delivered before it out of the category's stored
\* list.
FailureKeepsRestOfBatch ==
  [][\A k \in Cycles :
       AbandonsBatch(k) =>
         /\ sent[k] + 1 = Len(Updates(k))
         /\ \A i \in 1..sent[k] :
              Updates(k)[i] \in UrlSet(heap'[cache[k]][cat[k]])]_vars

\* C5: when a category's iteration reaches its pause, every item it
\* detected as new is in the category's stored list, whether or not its
\* notification was delivered.
DetectedIsMarkedSeen ==
  \A k \in Cycles :
    pc[k] = "pause" =>
      \A i \in DOMAIN Updates(k) :
        Updates(k)[i] \in UrlSet(heap[cache[k]][cat[k]])

Extract000(raw) == raw

P0ScrapeReturns(k) ==
  /\ pc[k] = "scrapeArticles"
  /\ \E raw \in RawPages(cat[k]) : AfterScrape(k, Extract000(raw))
  /\ UNCHANGED <<file, heap, globalCache, cache, cat, cachedUrls, sent, wbuf,
                 boots, starts, otherVars>>

\* browser.close() rejects in the finally block of scrapeArticles (line 278),
\* which has no catch of its own: the rejection replaces the return value or
\* the handled error, scrapeArticles rejects, and checkForNewArticles, with
\* no catch either, ends there.
P0ScrapeThrows(k) ==
  /\ pc[k] = "scrapeArticles"
  /\ Return(k)
  /\ UNCHANGED <<file, globalCache, boots, starts, otherVars>>

\* sendDiscordNotification rethrows (line 300) and checkForNewArticles has
\* no catch: the invocation ends there, with no commit and no saveCache.
\* (Where the runtime ends the process on the unhandled rejection, Restart
\* follows.)
P0SendFails(k) ==
  /\ pc[k] = "send"
  /\ Return(k)
  /\ UNCHANGED <<file, globalCache, boots, starts, otherVars>>

\* Line 322: the category's list is replaced in the cycle's cache object;
\* nothing is saved before the end of the cycle.
P0Commit(k) ==
  /\ pc[k] = "commit"
  /\ heap' = [heap EXCEPT ![cache[k]][cat[k]] =
                CommitIndex(newArticles[k], heap[cache[k]][cat[k]])]
  /\ sent' = [sent EXCEPT ![k] = 0]
  /\ pc' = [pc EXCEPT ![k] = "pause"]
  /\ UNCHANGED <<file, globalCache, cache, cat, cachedUrls, newArticles, wbuf,
                 boots, starts, otherVars>>

Next000 ==
  \/ IdxStart
  \/ \E k \in Cycles : P0ScrapeReturns(k)
  \/ \E k \in Cycles : P0ScrapeThrows(k)
  \/ \E k \in Cycles : SendOk(k)
  \/ \E k \in Cycles : P0SendFails(k)
  \/ \E k \in Cycles : P0Commit(k)
  \/ \E k \in Cycles : NextCategory(k)
  \/ \E k \in Cycles : FinalSave(k)
  \/ \E k \in Cycles : FinalWriteSettles(k)
  \/ ApiArticles
  \/ Restart

Spec000 == Init /\ [][Next000]_vars

\* C2: the updates of a cycle name each url once, so that each new url is
\* notified once in the cycle.
UpdatesNameEachUrlOnce ==
  \A k \in Cycles :
    \A i, j \in DOMAIN Updates(k) :
      Updates(k)[i] = Updates(k)[j] => i = j

\* -------------------------------------------------- src/unnamed/part_001
\* The store is inMemoryCache (line 29).  loadCache returns it (line 56) and
\* saveCache replaces it by a shallow copy (line 60) whose `categories` is
\* still the one object created at line 29: every invocation reads and
\* writes the same lists.  That object is heap[1]; there is no file.
InMemoryCategories == 1

\* page.evaluate (lines 111-141): every element with a title, a date and a
\* url is pushed, repeats included.
Extract001(raw) == raw

Commit001AsIndex(batch, updates, old) == Slice0(batch \o old, CacheLimit001)

\* cache.categories[category] = [...updates, ...old].slice(0, 50)
Commit001(batch, updates, old) == Slice0(updates \o old, CacheLimit001)

\* The timer (line 257) or the first call (line 256) runs
\* checkForNewArticles: loadCache, then the first category.
P1Start ==
  /\ \E j \in Cycles : pc[j] = "idle"
  /\ starts < MaxStarts
  /\ starts' = starts + 1
  /\ LET k == FreeSlot IN
       /\ cache' = [cache EXCEPT ![k] = InMemoryCategories]
       /\ EnterCategory(k, 1, heap, InMemoryCategories)
  /\ UNCHANGED <<file, heap, globalCache, wbuf, boots, otherVars>>

P1ScrapeReturns(k) ==
  /\ pc[k] = "scrapeArticles"
  /\ \E raw \in RawPages(cat[k]) : AfterScrape(k, Extract001(raw))
  /\ UNCHANGED <<file, heap, globalCache, cache, cat, cachedUrls, sent, wbuf,
                 boots, starts, otherVars>>

\* channels.fetch or channel.send rejects: the catch of
\* sendDiscordNotification (lines 178-180) logs it and the function returns;
\* the rest of the batch is not sent and the caller goes on to the commit.
P1SendFails(k) ==
  /\ pc[k] = "send"
  /\ pc' = [pc EXCEPT ![k] = "commit"]
  /\ UNCHANGED <<file, heap, globalCache, cache, cat, cachedUrls, newArticles,
                 sent, wbuf, boots, starts, otherVars>>

\* Lines 199-200: the commit, and saveCache, which is synchronous.
P1Commit(k) ==
  /\ pc[k] = "commit"
  /\ heap' = [heap EXCEPT ![cache[k]][cat[k]] =
                Commit001(newArticles[k], Updates(k), heap[cache[k]][cat[k]])]
  /\ pc' = [pc EXCEPT ![k] = "pause"]
  /\ UNCHANGED <<file, globalCache, cache, cat, cachedUrls, newArticles, sent,
                 wbuf, boots, starts, otherVars>>

\* After the last category (lines 210-211) the invocation returns.
P1Finish(k) ==
  /\ pc[k] = "pause"
  /\ cat[k] = NumCategories
  /\ Return(k)
  /\ UNCHANGED <<file, globalCache, boots, starts, otherVars>>

Next001 ==
  \/ P1Start
  \/ \E k \in Cycles : P1ScrapeReturns(k)
  \/ \E k \in Cycles : SendOk(k)
  \/ \E k \in Cycles : P1SendFails(k)
  \/ \E k \in Cycles : P1Commit(k)
  \/ \E k \in Cycles : NextCategory(k)
  \/ \E k \in Cycles : P1Finish(k)
  \/ Restart

Spec001 == Init /\ [][Next001]_vars

\* The step in which cycle k commits its category.
Commits(k) == pc[k] = "commit" /\ pc'[k] = "pause"

RetentionCycle ==
  /\ Len(rHist) < RetentionCycles
  /\ \E raw \in SeqUpTo(RetentionUrls, RetentionBatch) :
       LET batch == ExtractIndex(raw)
           updates == FilterNotIn(batch, UrlSet(rStore))
           now == Len(rHist) + 1
       IN /\ rHist' = Append(rHist, <<batch, updates>>)
          /\ IF HasUpdates(updates)
             THEN /\ rStore' = CommitAt(batch, rStore, RetentionCap)
                  /\ rStamp' = [u \in RetentionUrls |->
                                  IF u \in Range(updates) THEN now ELSE rStamp[u]]
             ELSE UNCHANGED <<rStore, rStamp>>
  /\ UNCHANGED <<monitorVars, scrapeVars, restVars>>

NextRetention == RetentionCycle

SpecRetention == Init /\ [][NextRetention]_vars

\* Urls that were stored and are no longer.
Evicted == {u \in RetentionUrls : rStamp[u] # 0 /\ u \notin UrlSet(rStore)}

\* C8: the stored list never holds more than cap entries, and every evicted
\* url was first seen no later than every url still stored.
EvictsOldestFirstSeen ==
  /\ Len(rStore) <= RetentionCap
  /\ \A e \in Evicted : \A r \in UrlSet(rStore) : rStamp[e] <= rStamp[r]

\* C9: with the cap at 3 and an empty store, batch [u1, u2] then batch
\* [u2, u3, u4] give the updates [u1, u2] then [u3, u4], and leave exactly
\* u2, u3 and u4 stored.
ScenarioTwoBatches ==
  ( /\ RetentionCap = 3
    /\ Len(rHist) = 2
    /\ rHist[1][1] = <<"u1", "u2">>
    /\ rHist[2][1] = <<"u2", "u3", "u4">> ) =>
  ( /\ rHist[1][2] = <<"u1", "u2">>
    /\ rHist[2][2] = <<"u3", "u4">>
    /\ UrlSet(rStore) = {"u2", "u3", "u4"} )

\* C9 witness: the two batches of the scenario have been processed.
ScenarioTwoBatchesRun ==
  /\ RetentionCap = 3
  /\ Len(rHist) = 2
  /\ rHist[1][1] = <<"u1", "u2">>
  /\ rHist[2][1] = <<"u2", "u3", "u4">>
  /\ Len(rStore) = 3

\* ------------------------------------------------------ crash and persistence
\* The urls that have been notified for category c as far as this process
\* knows: those in a cache object's list (a list only ever receives a batch
\* whose updates were all sent), those of the batch being committed, and
\* those already sent of a batch being sent.
NotifiedNow(c) ==
  UNION {UrlSet(heap[o][c]) : o \in LiveObjs(globalCache, cache)}
  \cup UNION {Range(Updates(k)) : k \in {j \in Cycles : cat[j] = c /\ pc[j] = "commit"}}
  \cup UNION {{Updates(k)[i] : i \in 1..sent[k]} :
                k \in {j \in Cycles : cat[j] = c /\ pc[j] = "send"}}

\* The categories for which file f lacks a url that has been notified.
Unflushed(f) == {c \in CatIdx : NotifiedNow(c) \ StoredIn(f, c) # {}}

\* C11: when the process crashes, the file it leaves lacks notified urls of
\* at most one category.
CrashLosesAtMostOneCategory ==
  [][boots' = boots + 1 => Cardinality(Unflushed(file')) <= 1]_vars

\* C12: at any moment the file lacks notified urls of at most one category,
\* so that a crash at that moment makes at most one category notify again.
AtMostOneCategoryUnflushed == Cardinality(Unflushed(file)) <= 1

\* C13: a failure in one category aborts that category only: an invocation
\* of checkForNewArticles ends only by returning from its final saveCache.
InvocationEndsThroughFinalSave ==
  [][\A k \in Cycles :
       (pc[k] # "idle" /\ pc'[k] = "idle" /\ boots' = boots) =>
         pc[k] = "finalWrite"]_vars

\* ------------------------------------------------------------ scrapeArticles
\* The retry loop of scrapeArticles, in src/index.js (lines 56-158) and in
\* src/unnamed/part_001 (lines 64-164).  An attempt is everything in the try
\* block: it ends by returning the extracted articles or by throwing (a
\* launch, navigation or protocol error or timeout).
ScrapeVariants == {"index", "part_001"}

ExtractOf(variant, raw) == IF variant = "index" THEN ExtractIndex(raw) ELSE Extract001(raw)

LastAttemptNever(attempt) == FALSE

\* if (attempt === MAX_RETRIES)
LastAttempt(attempt) == attempt = MAX_RETRIES

\* while (attempt <= MAX_RETRIES)
LoopGoesOn(attempt) == attempt <= MAX_RETRIES

Returns(result) ==
  /\ sResult' = result
  /\ sPc' = "returned"

ScrapeCall ==
  /\ sPc \in {"idle", "returned"}
  /\ sCalls < MaxScrapeCalls
  /\ sCalls' = sCalls + 1
  /\ \E v \in ScrapeVariants, c \in CatIdx : sVariant' = v /\ sCat' = c
  /\ sAttempt' = 1
  /\ sPauses' = 0
  /\ sResult' = Undefined
  /\ sPc' = "try"
  /\ UNCHANGED <<monitorVars, retentionVars, restVars>>

\* return articles (src/index.js:139, part_001:148); the finally block
\* closes the browser with its own error handling.
AttemptSucceeds ==
  /\ sPc = "try"
  /\ \E raw \in RawPages(sCat) : Returns(Array(ExtractOf(sVariant, raw)))
  /\ UNCHANGED <<sVariant, sCat, sAttempt, sPauses, sCalls, monitorVars, retentionVars, restVars>>

\* The catch of src/index.js (lines 140-147): the last attempt returns [],
\* an earlier one increments attempt and waits 10 s.
AttemptFailsIndex ==
  /\ sPc = "try" /\ sVariant = "index"
  /\ IF LastAttempt(sAttempt)
     THEN Returns(Array(<<>>)) /\ UNCHANGED <<sAttempt, sPauses>>
     ELSE /\ sAttempt' = sAttempt + 1
          /\ sPauses' = sPauses + 1
          /\ sPc' = "backoff"
          /\ UNCHANGED sResult
  /\ UNCHANGED <<sVariant, sCat, sCalls, monitorVars, retentionVars, restVars>>

\* The catch of part_001 (lines 149-155): attempt is incremented, and the
\* 10 s wait is taken if another attempt follows; otherwise the loop ends
\* and line 163 returns [].
AttemptFails001 ==
  /\ sPc = "try" /\ sVariant = "part_001"
  /\ sAttempt' = sAttempt + 1
  /\ IF LoopGoesOn(sAttempt + 1)
     THEN sPauses' = sPauses + 1 /\ sPc' = "backoff" /\ UNCHANGED sResult
     ELSE Returns(Array(<<>>)) /\ UNCHANGED sPauses
  /\ UNCHANGED <<sVariant, sCat, sCalls, monitorVars, retentionVars, restVars>>

\* The wait is over and the while condition is evaluated: another attempt,
\* or the end of the loop, where src/index.js has no return statement.
BackoffEnds ==
  /\ sPc = "backoff"
  /\ IF LoopGoesOn(sAttempt)
     THEN sPc' = "try" /\ UNCHANGED sResult
     ELSE Returns(IF sVariant = "index" THEN Undefined ELSE Array(<<>>))
  /\ UNCHANGED <<sVariant, sCat, sAttempt, sPauses, sCalls, monitorVars, retentionVars, restVars>>

ScrapeStep == AttemptSucceeds \/ AttemptFailsIndex \/ AttemptFails001 \/ BackoffEnds

NextScrape == ScrapeCall \/ ScrapeStep

\* Every await of an attempt settles (navigation and protocol timeouts), and
\* so does every wait.
SpecScrape == Init /\ [][NextScrape]_vars /\ WF_vars(ScrapeStep)

ScrapeStaysBounded ==
  /\ sPc = "try" => (sAttempt <= MAX_RETRIES /\ sPauses = sAttempt - 1)
  /\ sPc = "returned" => (sResult.kind = "array" /\ sPauses < MAX_RETRIES)

\* C14: a call of scrapeArticles makes at most MAX_RETRIES attempts, with a
\* pause before each attempt but the first, and it always returns, with an
\* array.
ScrapeAlwaysReturnsArray ==
  /\ []ScrapeStaysBounded
  /\ (sPc = "try") ~> (sPc = "returned")

\* C14 witness: a call has returned the empty batch after MAX_RETRIES
\* attempts and the pauses between them.
ScrapeGaveUp ==
  /\ sPc = "returned" /\ sResult = Array(<<>>)
  /\ sPauses = MAX_RETRIES - 1

\* ------------------------------------------------- degraded, in-memory mode
\* The step in which an invocation starts while no other is in progress.
StartsAlone(k) ==
  /\ \A j \in Cycles : pc[j] = "idle"
  /\ pc'[k] = "scrapeArticles"

\* C15: what the in-memory cache holds is not lost by a later cycle's
\* loadCache: an invocation that starts alone works on a cache that has,
\* for every category, every url globalCache has.
MemorySurvivesLoadCache ==
  [][\A k \in Cycles :
       StartsAlone(k) =>
         \A c \in CatIdx :
           UrlSet(heap[globalCache][c]) \subseteq UrlSet(heap'[cache'[k]][c])]_vars

\* -------------------------------------------------- src/unnamed/part_005
\* The store is the file alone: loadCache (lines 30-38) returns what it
\* parsed, or a new { categories: {} } when it cannot read the file; there
\* is no globalCache.  scrapeArticles closes the browser in an unguarded
\* finally (line 150), sendDiscordNotification swallows its errors (lines
\* 166-168), the commit is that of src/index.js (line 189), and saveCache is
\* called once, after the loop (line 197): Spec005 takes P0ScrapeThrows,
\* SendOk, P1SendFails, P0Commit, NextCategory, FinalWriteSettles and
\* Restart as they are.

\* page.evaluate (lines 98-137) pushes one article per title element, with
\* no check for repeats.
Extract005(raw) == raw

\* The timer or the first call (lines 231-232) runs checkForNewArticles:
\* loadCache, then the first category.
P5Start ==
  /\ \E j \in Cycles : pc[j] = "idle"
  /\ starts < MaxStarts
  /\ starts' = starts + 1
  /\ LET k == FreeSlot
         o == FreshObj
         h == [heap EXCEPT ![o] = IF file.readable THEN JSONparse(file.text)
                                  ELSE EmptyCache]
         c == [cache EXCEPT ![k] = o]
     IN /\ cache' = c
        /\ heap' = Collect(h, globalCache, c)
        /\ EnterCategory(k, 1, h, o)
  /\ UNCHANGED <<file, globalCache, wbuf, boots, otherVars>>

P5ScrapeReturns(k) ==
  /\ pc[k] = "scrapeArticles"
  /\ \E raw \in RawPages(cat[k]) : AfterScrape(k, Extract005(raw))
  /\ UNCHANGED <<file, heap, globalCache, cache, cat, cachedUrls, sent, wbuf,
                 boots, starts, otherVars>>

\* Lines 196-197: saveCache(cache) up to the await of fs.writeFile.
P5FinalSave(k) ==
  /\ pc[k] = "pause"
  /\ cat[k] = NumCategories
  /\ wbuf' = [wbuf EXCEPT ![k] = JSONstringify(heap[cache[k]])]
  /\ pc' = [pc EXCEPT ![k] = "finalWrite"]
  /\ UNCHANGED <<file, heap, globalCache, cache, cat, cachedUrls, newArticles,
                 sent, boots, starts, otherVars>>

\* channel.send resolves (lines 160-164): the client has logged in, which
\* takes a token (line 225).
P5SendOk(k) ==
  /\ token
  /\ SendOk(k)

Next005 ==
  \/ P5Start
  \/ \E k \in Cycles : P5ScrapeReturns(k)
  \/ \E k \in Cycles : P0ScrapeThrows(k)
  \/ \E k \in Cycles : P5SendOk(k)
  \/ \E k \in Cycles : P1SendFails(k)
  \/ \E k \in Cycles : P0Commit(k)
  \/ \E k \in Cycles : NextCategory(k)
  \/ \E k \in Cycles : P5FinalSave(k)
  \/ \E k \in Cycles : FinalWriteSettles(k)
  \/ Restart

Spec005 == Init /\ [][Next005]_vars

\* C16: when persistence fails the monitor goes on from memory: at the end
\* of an invocation, every url of its cache is where the next loadCache
\* finds it, which in part_005 is the file only.
CycleResultReachesNextLoad ==
  [][\A k \in Cycles :
       (pc[k] = "finalWrite" /\ pc'[k] = "idle" /\ boots' = boots) =>
         \A c \in CatIdx : UrlSet(heap[cache[k]][c]) \subseteq StoredIn(file', c)]_vars

\* ---------------------------- src/unnamed/part_002: the key-set monitor
\* checkUpdates of part_007 (lines 101-110) has the same text for the news
\* page.  The seen set lastNews lives in memory only.

Checks == 1..MaxChecks

\* What the page can show.  A date element that is missing gives the date
\* undefined, which the template literal of the key renders as the text
\* "undefined".
Titles == {"t1", "t2"}
Links == {"l1", "l2"}
Dates == {"d1", "d2", "undefined"}

\* page.evaluate: one { title, link, date } per .news-article element that
\* has a title and a link, in page order.
Articles == [title : Titles, link : Links, date : Dates]
NewsPages == SeqUpTo(Articles, MaxPage)

\* const key = `${article.title}-${article.date}`
Key(article) == article.title \o "-" \o article.date

RECURSIVE ForEachNewsNoAdd(_, _, _)
ForEachNewsNoAdd(newsArticles, seen, log) ==
  IF newsArticles = <<>> THEN <<seen, log>>
  ELSE LET article == Head(newsArticles)
           key == Key(article)
       IN IF key \notin seen
          THEN ForEachNewsNoAdd(Tail(newsArticles), seen, log \cup {article})
          ELSE ForEachNewsNoAdd(Tail(newsArticles), seen, log)

\* newsArticles.forEach: an article whose key is not in lastNews has its key
\* added and is handed to sendDiscordNotification, which is not awaited.
\* Gives <<lastNews, articles handed over>> after the loop.
RECURSIVE ForEachNews(_, _, _)
ForEachNews(newsArticles, seen, log) ==
  IF newsArticles = <<>> THEN <<seen, log>>
  ELSE LET article == Head(newsArticles)
           key == Key(article)
       IN IF key \notin seen
          THEN ForEachNews(Tail(newsArticles), seen \cup {key}, log \cup {article})
          ELSE ForEachNews(Tail(newsArticles), seen, log)

\* The first call or a timer tick (lines 98-99): checkUpdates runs up to
\* the await of scrapeStarWarsNews.  Nothing keeps two invocations apart.
CheckUpdatesStart(k) ==
  /\ kPc[k] = "idle"
  /\ kPc' = [kPc EXCEPT ![k] = "scrapeStarWarsNews"]
  /\ UNCHANGED <<lastNews, kLog, monitorVars, retentionVars, scrapeVars, restOfKey>>

\* scrapeStarWarsNews resolves (with [] after an error) and the forEach
\* runs to its end in one turn of the event loop.
CheckUpdatesResumes(k) ==
  /\ kPc[k] = "scrapeStarWarsNews"
  /\ \E newsArticles \in NewsPages :
       LET r == ForEachNews(newsArticles, lastNews, kLog)
       IN /\ lastNews' = r[1]
          /\ kLog' = r[2]
  /\ kPc' = [kPc EXCEPT ![k] = "idle"]
  /\ UNCHANGED <<monitorVars, retentionVars, scrapeVars, restOfKey>>

Next002 ==
  \/ \E k \in Checks : CheckUpdatesStart(k)
  \/ \E k \in Checks : CheckUpdatesResumes(k)

Spec002 == Init /\ [][Next002]_vars

\* C17: two items with the same link are the same article: no link is
\* notified under two different titles or dates.
OneNotificationPerLink ==
  \A a, b \in kLog : a.link = b.link => a = b

\* ------------------------ src/index.js, lines 368-562: the webhook monitor
\* postNews of part_000 (lines 84-130) and of part_006 has the same filter
\* and the same loop.

Posts == 1..MaxPosts

\* What the page can show: two articles share the title "t1".
WebArticles ==
  { [title |-> "t1", link |-> "l1", date |-> "d1"],
    [title |-> "t1", link |-> "l2", date |-> "d2"],
    [title |-> "t2", link |-> "l3", date |-> "d1"],
    [title |-> "t3", link |-> "l4", date |-> "d2"] }

\* results.slice(0, 5), with ScrapeLimit for 5.
WebPages == {Slice0(page, ScrapeLimit) : page \in SeqUpTo(WebArticles, ScrapeLimit + 1)}

\* articles.filter(article => !previousTitles.has(article.title))
FilterNewTitles(articles, titles) ==
  SelectSeq(articles, LAMBDA article : article.title \notin Range(titles))

AddTitleDropsLatest(titles, title) ==
  LET added == IF title \in Range(titles) THEN titles ELSE Append(titles, title)
  IN IF Len(added) > TitleLimit
     THEN Append(SubSeq(added, 1, TitleLimit - 1), title)
     ELSE added

\* previousTitles.add(title), then the trim to the last 50 (TitleLimit for
\* 50): Array.from(previousTitles).slice(-50).
AddTitle(titles, title) ==
  LET added == IF title \in Range(titles) THEN titles ELSE Append(titles, title)
  IN IF Len(added) > TitleLimit
     THEN SubSeq(added, Len(added) - TitleLimit + 1, Len(added))
     ELSE added

WebReturn(k) ==
  /\ wPc' = [wPc EXCEPT ![k] = "idle"]
  /\ wArticles' = [wArticles EXCEPT ![k] = <<>>]
  /\ wNewArticles' = [wNewArticles EXCEPT ![k] = <<>>]
  /\ wIndex' = [wIndex EXCEPT ![k] = 0]

\* The first call or a timer tick (lines 551-554): postNews runs up to the
\* await of scrapeStarWarsNews.
PostNewsStart(k) ==
  /\ wPc[k] = "idle"
  /\ wPc' = [wPc EXCEPT ![k] = "scrapeStarWarsNews"]
  /\ UNCHANGED <<wArticles, wNewArticles, wIndex, previousTitles, wLog,
                 monitorVars, retentionVars, scrapeVars, restOfWebhook>>

\* Lines 485-502: the scrape resolves.  Nothing scraped: the notice of line
\* 488 is sent.  Nothing new: return.  Otherwise the loop sends its first
\* message.
PostNewsScrapeReturns(k) ==
  /\ wPc[k] = "scrapeStarWarsNews"
  /\ \E articles \in WebPages :
       LET new == FilterNewTitles(articles, previousTitles)
       IN IF articles = <<>>
          THEN /\ wPc' = [wPc EXCEPT ![k] = "noticeEmpty"]
               /\ UNCHANGED <<wArticles, wNewArticles, wIndex>>
          ELSE IF new = <<>>
          THEN WebReturn(k)
          ELSE /\ wPc' = [wPc EXCEPT ![k] = "send"]
               /\ wArticles' = [wArticles EXCEPT ![k] = articles]
               /\ wNewArticles' = [wNewArticles EXCEPT ![k] = new]
               /\ wIndex' = [wIndex EXCEPT ![k] = 1]
  /\ UNCHANGED <<previousTitles, wLog, monitorVars, retentionVars, scrapeVars,
                 restOfWebhook>>

\* Lines 510-526: webhookClient.send resolves; the title is recorded and
\* the set trimmed; the delay starts.
PostNewsSendOk(k) ==
  /\ wPc[k] = "send"
  /\ LET article == wNewArticles[k][wIndex[k]]
     IN /\ wLog' = wLog \cup {article}
        /\ previousTitles' = AddTitle(previousTitles, article.title)
  /\ wPc' = [wPc EXCEPT ![k] = "delay"]
  /\ UNCHANGED <<wArticles, wNewArticles, wIndex, monitorVars, retentionVars,
                 scrapeVars, restOfWebhook>>

\* Line 510 rejects: the catch of line 531 sends its own notice.
PostNewsSendFails(k) ==
  /\ wPc[k] = "send"
  /\ wPc' = [wPc EXCEPT ![k] = "noticeError"]
  /\ UNCHANGED <<wArticles, wNewArticles, wIndex, previousTitles, wLog,
                 monitorVars, retentionVars, scrapeVars, restOfWebhook>>

\* Line 526 resolves: next article, or the end of postNews.
PostNewsDelayEnds(k) ==
  /\ wPc[k] = "delay"
  /\ IF wIndex[k] < Len(wNewArticles[k])
     THEN /\ wIndex' = [wIndex EXCEPT ![k] = wIndex[k] + 1]
          /\ wPc' = [wPc EXCEPT ![k] = "send"]
          /\ UNCHANGED <<wArticles, wNewArticles>>
     ELSE WebReturn(k)
  /\ UNCHANGED <<previousTitles, wLog, monitorVars, retentionVars, scrapeVars,
                 restOfWebhook>>

\* The send of a notice settles.  The notice of line 488 is inside the try:
\* when it rejects, the catch sends the notice of line 533.  That one
\* rejecting ends postNews with a rejection nobody handles.
PostNewsNoticeSettles(k) ==
  /\ wPc[k] \in {"noticeEmpty", "noticeError"}
  /\ \E ok \in BOOLEAN :
       IF ~ok /\ wPc[k] = "noticeEmpty"
       THEN /\ wPc' = [wPc EXCEPT ![k] = "noticeError"]
            /\ UNCHANGED <<wArticles, wNewArticles, wIndex>>
       ELSE WebReturn(k)
  /\ UNCHANGED <<previousTitles, wLog, monitorVars, retentionVars, scrapeVars,
                 restOfWebhook>>

NextWebhook ==
  \/ \E k \in Posts : PostNewsStart(k)
  \/ \E k \in Posts : PostNewsScrapeReturns(k)
  \/ \E k \in Posts : PostNewsSendOk(k)
  \/ \E k \in Posts : PostNewsSendFails(k)
  \/ \E k \in Posts : PostNewsDelayEnds(k)
  \/ \E k \in Posts : PostNewsNoticeSettles(k)

SpecWebhook == Init /\ [][NextWebhook]_vars

\* C18: identity is never the title alone: while postNews works on a batch,
\* every scraped article that has not been notified is among the new
\* articles it posts, whatever title it shares with a notified one.
UnnotifiedArticleIsNew ==
  \A k \in Posts :
    wPc[k] \in {"send", "delay"} =>
      \A article \in Range(wArticles[k]) :
        article \in wLog \/ article \in Range(wNewArticles[k])

\* ---------------- src/unnamed/part_004, lines 284-487: the persisted key set
\* lastNews and lastResetDate are written to LAST_NEWS_FILE after each
\* checkUpdates and read back once, at start-up.

\* toISOString().split('T')[0] of a day, and the day a date text parses to
\* (0: new Date(text) is invalid).
DayNames == <<"2025-06-01", "2025-06-02", "2025-06-03">>
ToISODate(day) == DayNames[day]
ParseDate(text) ==
  IF text \in Range(DayNames) THEN CHOOSE day \in DOMAIN DayNames : DayNames[day] = text
  ELSE 0

\* The article elements the page can show: one has no date element.
NoDateElement == "none"
Elements ==
  { [title |-> "t1", link |-> "l1", date |-> NoDateElement],
    [title |-> "t2", link |-> "l2", date |-> DayNames[2]] }
ElementPages == SeqUpTo(Elements, MaxPage)

\* page.evaluate (lines 407-424): an element without a date element gets
\* the current date of the clock as its date.
Extract004(page, day) ==
  [i \in DOMAIN page |->
     [title |-> page[i].title, link |-> page[i].link,
      date |-> IF page[i].date = NoDateElement THEN ToISODate(day) ELSE page[i].date]]

\* Lines 326-341.  An invalid first parse runs into the assignment to the
\* const articleDate, whose TypeError the catch turns into false.
isArticleAfterDate(articleDateStr, compareDate) ==
  LET day == ParseDate(articleDateStr)
  IN IF day = 0 THEN FALSE ELSE Midnight(day) >= compareDate

\* Lines 314-317: what saveLastNews serialises.
NewsFileOf(keys, reset) == [readable |-> TRUE, lastNews |-> keys, lastResetDate |-> reset]

\* Lines 483-484 with loadLastNews (lines 297-309): the file gives lastNews
\* and lastResetDate; without a readable file lastResetDate becomes the
\* current instant and saveLastNews is tried.
LoadLastNews ==
  /\ bootPc = "load"
  /\ bootPc' = "running"
  /\ IF lastNewsFile.readable
     THEN /\ lastNews' = lastNewsFile.lastNews
          /\ lastResetDate' = lastNewsFile.lastResetDate
          /\ UNCHANGED lastNewsFile
     ELSE /\ lastResetDate' = Now(today)
          /\ lastNewsFile' \in {lastNewsFile, NewsFileOf(lastNews, Now(today))}
          /\ UNCHANGED lastNews
  /\ UNCHANGED <<kPc, kLog, today, kBuf, monitorVars, retentionVars, scrapeVars,
                 restOfDate>>

\* Lines 485-486: checkUpdates runs up to the await of scrapeStarWarsNews.
Check004Start(k) ==
  /\ bootPc = "running"
  /\ kPc[k] = "idle"
  /\ kPc' = [kPc EXCEPT ![k] = "scrapeStarWarsNews"]
  /\ UNCHANGED <<lastNews, kLog, dateVars, monitorVars, retentionVars, scrapeVars,
                 restOfDate>>

\* Lines 459-479: the scrape resolves; an empty result returns at once;
\* otherwise the date filter, the forEach, and saveLastNews up to the await
\* of fs.writeFile.
Check004Resumes(k) ==
  /\ bootPc = "running"
  /\ kPc[k] = "scrapeStarWarsNews"
  /\ \E page \in ElementPages :
       LET newsArticles == Extract004(page, today)
           earliestDate == IF lastResetDate > INITIAL_START_DATE THEN lastResetDate
                           ELSE INITIAL_START_DATE
           newArticles4 == SelectSeq(newsArticles,
                             LAMBDA article : isArticleAfterDate(article.date, earliestDate))
           r == ForEachNews(newArticles4, lastNews, kLog)
       IN IF newsArticles = <<>>
          THEN /\ kPc' = [kPc EXCEPT ![k] = "idle"]
               /\ UNCHANGED <<lastNews, kLog, kBuf>>
          ELSE /\ lastNews' = r[1]
               /\ kLog' = r[2]
               /\ kBuf' = [kBuf EXCEPT ![k] = NewsFileOf(r[1], lastResetDate)]
               /\ kPc' = [kPc EXCEPT ![k] = "saveLastNews"]
  /\ UNCHANGED <<today, lastResetDate, lastNewsFile, bootPc, monitorVars,
                 retentionVars, scrapeVars, restOfDate>>

\* Line 318 settles: the file holds the data, or the error is logged.
Save004Settles(k) ==
  /\ kPc[k] = "saveLastNews"
  /\ lastNewsFile' \in {lastNewsFile, kBuf[k]}
  /\ kBuf' = [kBuf EXCEPT ![k] = NoNewsFile]
  /\ kPc' = [kPc EXCEPT ![k] = "idle"]
  /\ UNCHANGED <<lastNews, kLog, today, lastResetDate, bootPc, monitorVars,
                 retentionVars, scrapeVars, restOfDate>>

\* Midnight passes.
DayPasses ==
  /\ today < MaxDays
  /\ today' = today + 1
  /\ UNCHANGED <<kPc, lastNews, kLog, lastResetDate, lastNewsFile, bootPc, kBuf,
                 monitorVars, retentionVars, scrapeVars, restOfDate>>

\* The process is stopped and started again: lines 293-294 run anew, the
\* file stays.
Restart004 ==
  /\ bootPc = "running"
  /\ bootPc' = "load"
  /\ kPc' = [k \in Checks |-> "idle"]
  /\ kBuf' = [k \in Checks |-> NoNewsFile]
  /\ lastNews' = {}
  /\ lastResetDate' = INITIAL_START_DATE
  /\ UNCHANGED <<kLog, today, lastNewsFile, monitorVars, retentionVars, scrapeVars,
                 restOfDate>>

Next004 ==
  \/ LoadLastNews
  \/ \E k \in Checks : Check004Start(k)
  \/ \E k \in Checks : Check004Resumes(k)
  \/ \E k \in Checks : Save004Settles(k)
  \/ DayPasses
  \/ Restart004

Spec004 == Init /\ [][Next004]_vars

\* C19: the key of a scraped article is the same in every cycle, also when
\* it has no date element: no article element is notified under two keys.
ElementNotifiedOnce ==
  \A a, b \in kLog : (a.title = b.title /\ a.link = b.link) => a = b

\* ------------------------------------------ src/index.js: detection is pure
\* The step in which scrapeArticles resolves and the updates are computed.
Detects(k) ==
  /\ pc[k] = "scrapeArticles"
  /\ pc'[k] \in {"pause", "send", "commit"}
  /\ boots' = boots

\* The stored list of the category of cycle k has not been committed to
\* since cachedUrls was built from it.
NoCommitSince(k) == cachedUrls[k] = UrlSet(heap[cache[k]][cat[k]])

\* C20: computing the updates leaves the stored lists, the Set and the file
\* as they were, and computing them again on the same batch, from the stored
\* list as it is after the first computation, gives the same list.
DetectionIsRepeatable ==
  [][\A k \in Cycles :
       Detects(k) =>
         /\ heap' = heap
         /\ cachedUrls' = cachedUrls
         /\ file' = file
         /\ globalCache' = globalCache
         /\ NoCommitSince(k) =>
              /\ Updates(k)' = SelectSeq(newArticles'[k],
                                 LAMBDA u : u \notin UrlSet(heap'[cache'[k]][cat'[k]]))
              /\ (pc'[k] = "pause") <=>
                   (\A u \in Range(newArticles'[k]) : u \in UrlSet(heap'[cache'[k]][cat'[k]]))]_vars

\* A batch with a stored url and a new one has gone through detection.
DetectedOnMixedBatch ==
  \E k \in Cycles :
    /\ pc[k] = "send"
    /\ NoCommitSince(k)
    /\ Range(newArticles[k]) \cap cachedUrls[k] # {}
    /\ Range(newArticles[k]) \ cachedUrls[k] # {}

\* ------------------------------- the key-set monitors: detection and marking
\* The step in which the forEach of checkUpdates decides which articles of
\* the batch are new.
DecidesNew(k) ==
  /\ kPc[k] = "scrapeStarWarsNews"
  /\ kPc'[k] # "scrapeStarWarsNews"

\* C21: deciding which items of a batch are new leaves lastNews unchanged.
DetectionLeavesLastNews ==
  [][\A k \in Checks : DecidesNew(k) => lastNews' = lastNews]_vars

\* ------------------------------------------------- src/index.js: order kept
\* sub can be had from list by leaving elements out, the rest in place.
RECURSIVE IsSublistInOrder(_, _)
IsSublistInOrder(sub, list) ==
  IF sub = <<>> THEN TRUE
  ELSE IF list = <<>> THEN FALSE
  ELSE IF Head(sub) = Head(list) THEN IsSublistInOrder(Tail(sub), Tail(list))
  ELSE IsSublistInOrder(sub, Tail(list))

\* C22: the updates of a cycle follow the order of the scraped batch, and
\* the messages go out one at a time in the order of the updates: message
\* number i is sent for update number i.
UpdatesAndMessagesFollowBatch ==
  /\ [](\A k \in Cycles : IsSublistInOrder(Updates(k), newArticles[k]))
  /\ [][\A k \in Cycles :
          sent'[k] > sent[k] =>
            /\ pc[k] = "send"
            /\ sent'[k] = sent[k] + 1
            /\ sent'[k] <= Len(Updates(k))
            /\ Updates(k)' = Updates(k)]_vars

\* The first of two updates has been sent, the second is to follow.
SecondMessagePending ==
  \E k \in Cycles :
    /\ pc[k] = "send"
    /\ sent[k] = 1
    /\ Len(Updates(k)) = 2

\* ------------------------------------------- the stored list as a set of urls
\* C23: the stored list of a category never holds a url twice.
StoredUrlsAreDistinct ==
  \A i, j \in DOMAIN rStore : rStore[i] = rStore[j] => i = j

\* ------------------------------------------- the key-set monitors: retention
\* Every key the page can yield.
AllKeys == {Key(article) : article \in Articles}

\* C24: the seen set has a fixed retention cap: when the pages yield more
\* distinct keys than the cap allows, lastNews never holds all of them.
LastNewsDropsKeys ==
  Cardinality(lastNews) < Cardinality(AllKeys)

\* --------------------------------------------- postNews: cycles with no news
\* C25: a cycle in which nothing was scraped, or nothing new, sends no
\* message: postNews never waits for the send of the notice of line 488.
QuietCycleSendsNothing ==
  \A k \in Posts : wPc[k] # "noticeEmpty"

\* ----------------------------------- src/unnamed/part_005: start without token
\* The process is started with or without DISCORD_TOKEN.  A failed login is
\* logged (lines 225-227); app.listen (lines 229-233) starts the first cycle
\* and the timer whatever the login did.
InitAnyEnv ==
  /\ token \in BOOLEAN
  /\ stable = FALSE
  /\ DateCallIdle
  /\ RetriesCallIdle
  /\ SequentialIdle
  /\ FeedIdle
  /\ DateIdle
  /\ WebhookIdle
  /\ KeyIdle
  /\ ScrapeIdle
  /\ file = NoFile
  /\ FreshProcess
  /\ boots = 0
  /\ starts = 0
  /\ RetentionIdle

Spec005AnyEnv == InitAnyEnv /\ [][Next005]_vars

\* C26: without the credential the process exits at once: no cycle is ever
\* started.
NoCycleWithoutCredential ==
  ~token => (starts = 0 /\ \A k \in Cycles : pc[k] = "idle")

\* -------------------- src/index.js, lines 239-366: the single-feed monitor
\* One list, cache.articles, kept in CACHE_FILE ('lastNews.json', the name
\* part_004 and part_005 give to files of their own schemas).  No
\* notification is sent: checkForNewArticles returns the updates.

FeedPages == SeqUpTo(Urls, MaxBatch)

FeedReturn(k) ==
  /\ fPc' = [fPc EXCEPT ![k] = "idle"]
  /\ fArticles' = [fArticles EXCEPT ![k] = <<>>]
  /\ fCachedUrls' = [fCachedUrls EXCEPT ![k] = {}]
  /\ fBuf' = [fBuf EXCEPT ![k] = <<>>]

\* The first call or a timer tick (lines 363-365): checkForNewArticles runs
\* up to the await of fs.readFile in loadCache.
FeedStart(k) ==
  /\ fPc[k] = "idle"
  /\ fPc' = [fPc EXCEPT ![k] = "loadCache"]
  /\ UNCHANGED <<fFile, fArticles, fCachedUrls, fBuf, monitorVars, retentionVars,
                 scrapeVars, restOfFeed>>

\* Lines 249-257 and 332-334: loadCache returns what JSON.parse gave, or a
\* new { articles: [] } when the file cannot be read.  cache.articles.map
\* throws a TypeError when the parsed object has no `articles`: nothing
\* catches it, and checkForNewArticles rejects.
FeedLoaded(k) ==
  /\ fPc[k] = "loadCache"
  /\ IF fFile.kind = "other"
     THEN /\ fPc' = [fPc EXCEPT ![k] = "rejected"]
          /\ UNCHANGED <<fArticles, fCachedUrls>>
     ELSE /\ fArticles' = [fArticles EXCEPT ![k] = fFile.articles]
          /\ fCachedUrls' = [fCachedUrls EXCEPT ![k] = UrlSet(fFile.articles)]
          /\ fPc' = [fPc EXCEPT ![k] = "scrapeArticles"]
  /\ UNCHANGED <<fFile, fBuf, monitorVars, retentionVars, scrapeVars, restOfFeed>>

\* Lines 334-350: scrapeArticles resolves ([] after an error); with updates
\* the list is replaced and saveCache runs up to the await of fs.writeFile.
FeedScrapeReturns(k) ==
  /\ fPc[k] = "scrapeArticles"
  /\ \E newArticles1 \in FeedPages :
       LET updates == FilterNotIn(newArticles1, fCachedUrls[k])
           list == CommitIndex(newArticles1, fArticles[k])
       IN IF HasUpdates(updates)
          THEN /\ fArticles' = [fArticles EXCEPT ![k] = list]
               /\ fBuf' = [fBuf EXCEPT ![k] = list]
               /\ fPc' = [fPc EXCEPT ![k] = "saveCache"]
               /\ UNCHANGED fCachedUrls
          ELSE FeedReturn(k)
  /\ UNCHANGED <<fFile, monitorVars, retentionVars, scrapeVars, restOfFeed>>

\* Line 261 settles: the file holds the text, or the error is logged.
FeedWriteSettles(k) ==
  /\ fPc[k] = "saveCache"
  /\ fFile' \in {fFile, FeedFileOf(fBuf[k])}
  /\ FeedReturn(k)
  /\ UNCHANGED <<monitorVars, retentionVars, scrapeVars, restOfFeed>>

\* The rejected invocation is over.
FeedRejected(k) ==
  /\ fPc[k] = "rejected"
  /\ FeedReturn(k)
  /\ UNCHANGED <<fFile, monitorVars, retentionVars, scrapeVars, restOfFeed>>

\* Another version of the monitor, run in the same directory, leaves a
\* lastNews.json of its schema ({ categories, ... } or { lastNews, ... }).
OtherSchemaWrites ==
  /\ fFile.kind # "other"
  /\ fFile' = OtherSchemaFile
  /\ UNCHANGED <<fPc, fArticles, fCachedUrls, fBuf, monitorVars, retentionVars,
                 scrapeVars, restOfFeed>>

NextFeed ==
  \/ \E k \in Cycles : FeedStart(k)
  \/ \E k \in Cycles : FeedLoaded(k)
  \/ \E k \in Cycles : FeedScrapeReturns(k)
  \/ \E k \in Cycles : FeedWriteSettles(k)
  \/ \E k \in Cycles : FeedRejected(k)
  \/ OtherSchemaWrites

SpecFeed == Init /\ [][NextFeed]_vars

\* C27: a store file without the list field does not crash the cycle: no
\* invocation ends in a rejection.
NoCycleRejects ==
  \A k \in Cycles : fPc[k] # "rejected"

\* --------------------------------------- src/index.js: categories on their own
\* Cycle k enters a category: cachedUrls is built.
Enters(k) ==
  /\ pc'[k] = "scrapeArticles"
  /\ pc[k] # "scrapeArticles" \/ cat'[k] # cat[k]

ServesRequest ==
  /\ pc' = pc
  /\ sent' = sent
  /\ boots' = boots

\* C29: serving GET /api/articles changes neither the file nor the
\* in-memory cache: in particular no url that globalCache holds is missing
\* from it after the request.
ApiArticlesReadsOnly ==
  [][ServesRequest =>
       /\ file' = file
       /\ \A c \in CatIdx :
            UrlSet(heap[globalCache][c]) \subseteq UrlSet(heap'[globalCache'][c])]_vars

\* ------------------- src/index.js, lines 181-213: one category, cycle by cycle
\* checkForNewArticles for a single category with one invocation at a time:
\* a whole invocation is one step.  The sends can fail at any update, and
\* each fs.writeFile can fail.

\* The file is there before the first cycle, with an empty list (left by an
\* earlier run).
FileInstalled ==
  /\ ~qFile.readable
  /\ qLast.batch = <<>>
  /\ qMem = <<>>
  /\ qFile' = ListFileOf(<<>>)
  /\ UNCHANGED <<qMem, qCount, qGone, qLoadFailed, qLast, monitorVars, retentionVars,
                 scrapeVars, restOfSeq>>

SequentialCycle ==
  \E raw \in SeqUpTo(Urls, MaxBatch) :
    LET cache0 == IF qFile.readable THEN qFile.list ELSE qMem
        batch == ExtractIndex(raw)
        updates == FilterNotIn(batch, UrlSet(cache0))
    IN \E n \in 0..Len(updates) :
         LET clean == n = Len(updates)
             list == IF HasUpdates(updates) /\ clean THEN CommitIndex(batch, cache0)
                     ELSE cache0
         IN /\ qLoadFailed' = (qLoadFailed \/ ~qFile.readable)
            /\ qCount' = [u \in Urls |->
                            IF \E i \in 1..n : updates[i] = u THEN Min(qCount[u] + 1, 2)
                            ELSE qCount[u]]
            /\ qGone' = qGone \cup {u \in Urls : qCount[u] > 0 /\ u \notin Range(batch)}
            /\ qMem' = list
            /\ qFile' \in {qFile, ListFileOf(list)}
            /\ qLast' = [batch |-> batch, clean |-> clean]
            /\ UNCHANGED <<monitorVars, retentionVars, scrapeVars, restOfSeq>>

NextSequential ==
  \/ FileInstalled
  \/ SequentialCycle

SpecSequential == Init /\ [][NextSequential]_vars

\* C30: after a category is finished without error every url of the batch
\* (of at most 100 distinct urls) is in the category's stored list; and with
\* one invocation at a time and no load failure, a url that is in every
\* batch from its first message on gets one message at most.
BatchStoredAndNotifiedOnce ==
  /\ (qLast.clean /\ Len(qLast.batch) <= CacheLimit) =>
       Range(qLast.batch) \subseteq UrlSet(qMem)
  /\ ~qLoadFailed => \A u \in Urls \ qGone : qCount[u] <= 1

\* ------------- the commit rule of src/unnamed/part_001, cycle after cycle
\* One category, one invocation at a time, every notification delivered:
\* lines 191-200 of part_001 run as a whole (part_003 lines 147-158 and
\* part_004 lines 196-207 commit in the same way: their newArticles is
\* already the filtered list).  rHist records each cycle's batch and updates.
Retention001Cycle ==
  /\ Len(rHist) < RetentionCycles
  /\ \E raw \in SeqUpTo(RetentionUrls, RetentionBatch) :
       LET batch == Extract001(raw)
           updates == FilterNotIn(batch, UrlSet(rStore))
           now == Len(rHist) + 1
       IN /\ rHist' = Append(rHist, <<batch, updates>>)
          /\ IF HasUpdates(updates)
             THEN /\ rStore' = Commit001(batch, updates, rStore)
                  /\ rStamp' = [u \in RetentionUrls |->
                                  IF u \in Range(updates) THEN now ELSE rStamp[u]]
             ELSE UNCHANGED <<rStore, rStamp>>
  /\ UNCHANGED <<monitorVars, scrapeVars, restVars>>

NextRetention001 == Retention001Cycle

SpecRetention001 == Init /\ [][NextRetention001]_vars

\* The cycles so far in which url u was among the updates.
DetectedIn(u) == {i \in DOMAIN rHist : u \in Range(rHist[i][2])}

\* C31: a url that is in every batch from the cycle of its first detection
\* on is among the updates of one cycle only.
InEveryBatchNotifiedOnce ==
  \A u \in RetentionUrls :
    DetectedIn(u) # {} =>
      LET first == CHOOSE i \in DetectedIn(u) : \A j \in DetectedIn(u) : i <= j
      IN (\A i \in first..Len(rHist) : u \in Range(rHist[i][1]))
           => Cardinality(DetectedIn(u)) = 1

\* --------------------- postNews of src/index.js 483-541, cycle after cycle
\* One invocation at a time, every webhookClient.send resolving: the loop of
\* lines 502-527 runs to its end.  rHist records each cycle's scraped
\* articles and the articles it posted.
RECURSIVE AddTitles(_, _)
AddTitles(titles, articles) ==
  IF articles = <<>> THEN titles
  ELSE AddTitles(AddTitle(titles, Head(articles).title), Tail(articles))

PostNewsCycle ==
  /\ Len(rHist) < TitleCycles
  /\ \E articles \in WebPages :
       LET new == FilterNewTitles(articles, previousTitles)
       IN /\ rHist' = Append(rHist, <<articles, new>>)
          /\ previousTitles' = AddTitles(previousTitles, new)
          /\ wLog' = wLog \cup Range(new)
  /\ UNCHANGED <<rStore, rStamp, wPc, wArticles, wNewArticles, wIndex,
                 monitorVars, scrapeVars, restOfWebhook>>

NextTitles == PostNewsCycle

SpecTitles == Init /\ [][NextTitles]_vars

\* The cycles so far in which an article with title t was posted, and those
\* in which one was scraped.
PostedIn(t) == {i \in DOMAIN rHist : \E a \in Range(rHist[i][2]) : a.title = t}
ScrapedIn(t) == {i \in DOMAIN rHist : \E a \in Range(rHist[i][1]) : a.title = t}

\* C32: a title that is among the scraped articles of every cycle since the
\* one in which it was first posted is posted in that cycle only.
PostedTitleNotPostedAgain ==
  \A t \in {a.title : a \in WebArticles} :
    PostedIn(t) # {} =>
      LET first == CHOOSE i \in PostedIn(t) : \A j \in PostedIn(t) : i <= j
      IN (first..Len(rHist) \subseteq ScrapedIn(t)) => Cardinality(PostedIn(t)) = 1

\* ------------------------------------------- the trim of previousTitles
\* The place of title t in the insertion order s.
PlaceIn(s, t) == CHOOSE i \in DOMAIN s : s[i] = t

\* C33: previousTitles never holds more than the limit, and a step that
\* changes it appends one title and drops, when the limit is exceeded, the
\* titles inserted before every title it keeps, and no more than the excess.
TrimKeepsLatestTitles ==
  /\ [](Len(previousTitles) <= TitleLimit)
  /\ [][previousTitles' # previousTitles =>
          LET old == Range(previousTitles)
              new == Range(previousTitles')
              kept == old \cap new
              dropped == old \ new
          IN /\ Cardinality(new \ old) = 1
             /\ previousTitles'[Len(previousTitles')] \notin old
             /\ \A d \in dropped : \A t \in kept :
                  PlaceIn(previousTitles, d) < PlaceIn(previousTitles, t)
             /\ \A s, t \in kept :
                  PlaceIn(previousTitles, s) < PlaceIn(previousTitles, t)
                    => PlaceIn(previousTitles', s) < PlaceIn(previousTitles', t)
             /\ dropped # {} => Len(previousTitles') = TitleLimit]_vars

\* C33 witness: a posted title has been dropped from a full previousTitles.
PostedTitleDropped ==
  /\ Len(previousTitles) = TitleLimit
  /\ \E a \in wLog : a.title \notin Range(previousTitles)

\* --------------------------------------------- postNews: a send that fails
\* C34: when a send of postNews has failed, every item of its list from the
\* failed one on that has not been posted has its title outside
\* previousTitles, so that the next cycle that scrapes it detects it as new.
FailedItemsStayNew ==
  \A k \in Posts :
    wPc[k] = "noticeError" =>
      \A j \in DOMAIN wNewArticles[k] :
        j >= wIndex[k] =>
          \/ wNewArticles[k][j] \in wLog
          \/ wNewArticles[k][j].title \notin Range(previousTitles)

DeliveredOfBatch(j) ==
  IF pc[j] \in {"send", "commit"} THEN {Updates(j)[i] : i \in 1..sent[j]} ELSE {}

\* C36: no url is notified twice for a category when cycles overlap: a
\* cycle does not deliver a url that another cycle in progress has
\* delivered for the same category in the batch it is working on.
OverlapNotifiesOnce ==
  [][\A k \in Cycles :
       Notifies(k) =>
         \A j \in Cycles \ {k} :
           cat[j] = cat[k] => Updates(k)[sent[k] + 1] \notin DeliveredOfBatch(j)]_vars

\* C37: a save never removes from CACHE_FILE a url the file holds for a
\* category, unless the list it writes for the category is full (the cap
\* has evicted).
SaveKeepsWrittenEntries ==
  [][(boots' = boots /\ file.readable /\ file'.readable) =>
       \A c \in CatIdx :
         \/ StoredInFile(c) \subseteq StoredIn(file', c)
         \/ Len(JSONparse(file'.text)[c]) = CacheLimit]_vars

\* ------------------------------ src/index.js: progress of the category monitor
\* The cycles are followed without a bound on their number.  `stable` marks
\* the time from which the page of the first category always shows LiveItem
\* and channels.fetch and channel.send no longer reject.  Only the timer's
\* invocations are followed, not the requests to /api/articles.
LiveItem == "u1"

\* From now on the item is on the page and deliveries succeed.
Stabilises ==
  /\ ~stable
  /\ stable' = TRUE
  /\ UNCHANGED <<token, monitorVars, retentionVars, scrapeVars, keyVars,
                 webhookVars, dateVars, feedVars, seqVars, callVars>>

\* A timer tick (line 228): as IdxStart, for any number of ticks.  `starts`
\* counts the ticks that found an invocation in progress.
LiveStart ==
  /\ \E j \in Cycles : pc[j] = "idle"
  /\ IF \A j \in Cycles : pc[j] = "idle" THEN starts' = starts
     ELSE starts < MaxOverlaps /\ starts' = starts + 1
  /\ LET k == FreeSlot
         o == IF file.readable THEN FreshObj ELSE globalCache
         h == IF file.readable THEN [heap EXCEPT ![o] = JSONparse(file.text)] ELSE heap
         c == [cache EXCEPT ![k] = o]
     IN /\ globalCache' = o
        /\ cache' = c
        /\ heap' = Collect(h, o, c)
        /\ EnterCategory(k, 1, h, o)
  /\ UNCHANGED <<file, wbuf, boots, otherVars>>

LiveScrapeReturns(k) ==
  /\ IdxScrapeReturns(k)
  /\ (stable /\ cat[k] = 1) => LiveItem \in Range(newArticles'[k])

LiveSendFails(k) == ~stable /\ IdxSendFails(k)

\* What the event loop does next for invocation k: the promise it awaits
\* settles.
CycleStep(k) ==
  \/ LiveScrapeReturns(k)
  \/ SendOk(k)
  \/ LiveSendFails(k)
  \/ IdxCommit(k)
  \/ IdxWriteSettles(k)
  \/ NextCategory(k)
  \/ FinalSave(k)
  \/ FinalWriteSettles(k)

NextLive ==
  \/ Stabilises
  \/ LiveStart
  \/ \E k \in Cycles : LiveScrapeReturns(k)
  \/ \E k \in Cycles : SendOk(k)
  \/ \E k \in Cycles : LiveSendFails(k)
  \/ \E k \in Cycles : IdxCommit(k)
  \/ \E k \in Cycles : IdxWriteSettles(k)
  \/ \E k \in Cycles : NextCategory(k)
  \/ \E k \in Cycles : FinalSave(k)
  \/ \E k \in Cycles : FinalWriteSettles(k)

\* The timer keeps firing and every awaited promise settles.
SpecLive ==
  /\ Init
  /\ [][NextLive]_vars
  /\ WF_vars(LiveStart)
  /\ \A k \in Cycles : WF_vars(CycleStep(k))

\* LiveItem is in no stored list: not in the file, not in a text on its way
\* to the file, not in a cache object, not in a Set built from one.
LiveItemNotStored ==
  /\ LiveItem \notin StoredInFile(1)
  /\ \A k \in Cycles : LiveItem \notin StoredIn(FileOf(wbuf[k]), 1)
  /\ \A k \in Cycles : cat[k] = 1 => LiveItem \notin cachedUrls[k]
  /\ \A o \in Objs : LiveItem \notin UrlSet(heap[o][1])

\* A cycle has sent every update of a batch of the first category that has
\* LiveItem among them, and has committed the batch.
LiveItemCommitted ==
  \E k \in Cycles :
    /\ pc[k] = "writeFile" /\ cat[k] = 1
    /\ LiveItem \in Range(Updates(k))
    /\ LiveItem \in UrlSet(heap[cache[k]][1])

MonthNameTexts == <<"Jun 1, 2025 | News", "Jun 2, 2025 | News", "Jun 3, 2025 | News">>
OtherTexts == {"yesterday", "No date"}
DateTexts == Range(DayNames) \cup Range(MonthNameTexts) \cup OtherTexts

\* new Date(year, monthNum, day) of the first three words of the text (lines
\* 331-334): the day it gives (0: not a date).
FallbackParse(text) ==
  IF text \in Range(MonthNameTexts)
  THEN CHOOSE day \in DOMAIN MonthNameTexts : MonthNameTexts[day] = text
  ELSE 0

\* The instants compareDate can be.
CompareDates == Midnight(0)..Now(MaxDays)

InitDate ==
  /\ token = TRUE
  /\ stable = FALSE
  /\ dText \in DateTexts
  /\ dCompare \in CompareDates
  /\ dResult = "none"
  /\ RetriesCallIdle
  /\ SequentialIdle
  /\ FeedIdle
  /\ DateIdle
  /\ WebhookIdle
  /\ KeyIdle
  /\ ScrapeIdle
  /\ file = NoFile
  /\ FreshProcess
  /\ boots = 0
  /\ starts = 0
  /\ RetentionIdle

\* The filter of line 469 calls isArticleAfterDate(article.date, earliestDate).
CallIsArticleAfterDate ==
  /\ dResult = "none"
  /\ dResult' = IF isArticleAfterDate(dText, dCompare) THEN "true" ELSE "false"
  /\ UNCHANGED <<dText, dCompare, rtRetries, rtPc, rtI, rtLog, rtResult,
                 monitorVars, retentionVars, scrapeVars, restOfCalls>>

NextDate == CallIsArticleAfterDate

SpecDate == InitDate /\ [][NextDate]_vars

\* The day the text stands for: the first parse, or the month-name parse
\* when the first is invalid (0: neither parses it).
DayOfText(text) == IF ParseDate(text) # 0 THEN ParseDate(text) ELSE FallbackParse(text)

\* C39: isArticleAfterDate returns true exactly when the text parses, by
\* the first parse or else by the month-name parse, to a date on or after
\* compareDate.
FallbackParseDecides ==
  dResult # "none" =>
    (dResult = "true" <=>
       (DayOfText(dText) # 0 /\ Midnight(DayOfText(dText)) >= dCompare))

\* ------------------------ src/unnamed/part_007, lines 26-36: withRetries
\* fn resolves with a value or rejects with an error; rtLog records each
\* call of fn with its outcome, and each delay.
FnValues == {"v1", "v2"}
FnErrors == {"e1", "e2"}
RetryArgs == 0..MaxRetryArg

InitRetries ==
  /\ token = TRUE
  /\ stable = FALSE
  /\ DateCallIdle
  /\ rtRetries \in RetryArgs
  /\ rtPc = "idle"
  /\ rtI = 0
  /\ rtLog = <<>>
  /\ rtResult = <<"none">>
  /\ SequentialIdle
  /\ FeedIdle
  /\ DateIdle
  /\ WebhookIdle
  /\ KeyIdle
  /\ ScrapeIdle
  /\ file = NoFile
  /\ FreshProcess
  /\ boots = 0
  /\ starts = 0
  /\ RetentionIdle

\* `if (i === retries - 1) throw error` (line 31).
LastRetryNever(i, retries) == FALSE

LastRetry(i, retries) == i = retries - 1

\* withRetries is called: i = 0; the loop test of line 27 lets fn be called
\* or, failing at once, lets the function return undefined.
WithRetriesCalled ==
  /\ rtPc = "idle"
  /\ rtI' = 0
  /\ IF 0 < rtRetries
     THEN /\ rtPc' = "fn"
          /\ UNCHANGED rtResult
     ELSE /\ rtPc' = "settled"
          /\ rtResult' = <<"returned", "undefined">>
  /\ UNCHANGED <<rtRetries, rtLog, dText, dCompare, dResult, monitorVars,
                 retentionVars, scrapeVars, restOfCalls>>

\* fn() resolves: `return await fn()` (line 29).
FnResolves ==
  /\ rtPc = "fn"
  /\ \E v \in FnValues :
       /\ rtLog' = Append(rtLog, <<"fn", v>>)
       /\ rtResult' = <<"returned", v>>
  /\ rtPc' = "settled"
  /\ UNCHANGED <<rtRetries, rtI, dText, dCompare, dResult, monitorVars,
                 retentionVars, scrapeVars, restOfCalls>>

\* fn() rejects (lines 30-33): on the last retry the error is thrown,
\* otherwise the delay is awaited.
FnRejects ==
  /\ rtPc = "fn"
  /\ \E e \in FnErrors :
       /\ rtLog' = Append(rtLog, <<"fn", e>>)
       /\ IF LastRetry(rtI, rtRetries)
          THEN /\ rtPc' = "settled"
               /\ rtResult' = <<"thrown", e>>
          ELSE /\ rtPc' = "delay"
               /\ UNCHANGED rtResult
  /\ UNCHANGED <<rtRetries, rtI, dText, dCompare, dResult, monitorVars,
                 retentionVars, scrapeVars, restOfCalls>>

\* The delay ends: i++ and the loop test (line 27).
RetryDelayEnds ==
  /\ rtPc = "delay"
  /\ rtLog' = Append(rtLog, <<"delay">>)
  /\ rtI' = rtI + 1
  /\ IF rtI + 1 < rtRetries
     THEN /\ rtPc' = "fn"
          /\ UNCHANGED rtResult
     ELSE /\ rtPc' = "settled"
          /\ rtResult' = <<"returned", "undefined">>
  /\ UNCHANGED <<rtRetries, dText, dCompare, dResult, monitorVars,
                 retentionVars, scrapeVars, restOfCalls>>

NextRetries ==
  \/ WithRetriesCalled
  \/ FnResolves
  \/ FnRejects
  \/ RetryDelayEnds

SpecRetries == InitRetries /\ [][NextRetries]_vars

\* The calls of fn so far, and the positions of the delays in the log.
FnCalls == SelectSeq(rtLog, LAMBDA ev : ev[1] = "fn")
DelayPlaces == {n \in DOMAIN rtLog : rtLog[n] = <<"delay">>}

\* C40: fn is called at most `retries` times; a call that succeeds is the
\* last one and its value is returned; when `retries` calls have failed the
\* error of the last is thrown; every failed call but the last one is
\* followed by a delay, and no delay follows the last call.
WithRetriesContract ==
  /\ Len(FnCalls) <= rtRetries
  /\ \A n \in DOMAIN FnCalls :
       FnCalls[n][2] \in FnValues =>
         /\ n = Len(FnCalls)
         /\ rtPc = "settled"
         /\ rtResult = <<"returned", FnCalls[n][2]>>
  /\ (Len(FnCalls) = rtRetries /\ rtRetries > 0
        /\ FnCalls[rtRetries][2] \in FnErrors) =>
       /\ rtPc = "settled"
       /\ rtResult = <<"thrown", FnCalls[rtRetries][2]>>
  /\ rtResult[1] = "thrown" => Len(FnCalls) = rtRetries
  /\ \A n \in DelayPlaces : n > 1 /\ rtLog[n - 1][1] = "fn" /\ rtLog[n - 1][2] \in FnErrors
  /\ rtPc = "settled" => (rtLog # <<>> => rtLog[Len(rtLog)] # <<"delay">>)
  /\ Cardinality(DelayPlaces) =
       Cardinality({n \in DOMAIN FnCalls : FnCalls[n][2] \in FnErrors /\ n < rtRetries})
     - (IF rtPc = "delay" THEN 1 ELSE 0)

\* C40 witness: the default three calls have all failed, with two delays,
\* and the last error was thrown.
AllRetriesFailed ==
  /\ rtRetries = 3
  /\ Len(FnCalls) = 3
  /\ Cardinality(DelayPlaces) = 2
  /\ rtResult = <<"thrown", "e2">>

====
